---- MODULE Spec2Model ----
(***************************************************************************)
(* Model of CustomOperations.ts: the three HTTP handlers Patient, Device   *)
(* and Observation, which resolve the caller to one Practitioner and one   *)
(* PractitionerRole and return the upstream resources filtered by          *)
(* organisation membership and by consent.                                 *)
(*                                                                         *)
(* Strings are sequences of one-character strings, so that endsWith and    *)
(* + (concatenation) are computed character by character.  A value that    *)
(* may be undefined in the source (an optional field, a missing header) is *)
(* a set of at most one element: {} is undefined, {v} is the value v, and  *)
(* === on two such values is set equality (undefined === undefined).       *)
(* Fields the source dereferences without ?. are always present.           *)
(***************************************************************************)
EXTENDS Naturals, Sequences, FiniteSets

\* ------------------------------------------------------------ bounds
\* most entries in one upstream Bundle
MaxEntries == 2
\* most actor grants in one consent of the consent evaluator's inputs
MaxActors == 2
\* most consents in one input list of the consent evaluator
MaxConsents == 1

\* ------------------------------------------------------------ strings
Undefined == {}

Some(v) == {v}

Practitioner == <<"P","r","a","c","t","i","t","i","o","n","e","r">>

PractitionerRole == Practitioner \o <<"R","o","l","e">>

PatientType == <<"P","a","t","i","e","n","t">>

ConsentType == <<"C","o","n","s","e","n","t">>

DeviceType == <<"D","e","v","i","c","e">>

ObservationType == <<"O","b","s","e","r","v","a","t","i","o","n">>

OperationOutcome == <<"O","p","e","r","a","t","i","o","n","O","u","t","c","o","m","e">>

Organization == <<"O","r","g","a","n","i","z","a","t","i","o","n">>

Bundle == <<"B","u","n","d","l","e">>

Slash == <<"/">>

fhirURL ==
    <<"h","t","t","p","s",":","/","/","b","2","3","2","4","h","e","a","l","t","h",
      "-","f","h","i","r","d","a","t","a",".","f","h","i","r",".","a","z","u","r",
      "e","h","e","a","l","t","h","c","a","r","e","a","p","i","s",".","c","o","m">>

\* String.prototype.endsWith
EndsWith(s, suffix) ==
    /\ Len(suffix) <= Len(s)
    /\ SubSeq(s, Len(s) - Len(suffix) + 1, Len(s)) = suffix

\* Array.prototype.some
SomeOf(list, P(_)) == \E i \in 1..Len(list) : P(list[i])

\* Array.prototype.filter
Filter(list, P(_)) == SelectSeq(list, P)

\* Array.prototype.map
Map(list, F(_)) == [i \in 1..Len(list) |-> F(list[i])]

Range(list) == {list[i] : i \in 1..Len(list)}

\* a relative reference "Kind/id"
Ref(kind, id) == kind \o Slash \o id

\* ------------------------------------------------------------ upstream data
\* Reference strings and ids of the snapshot.  "1" is a suffix of "11", and
\* AbsOrg1 (an absolute reference into another server) ends with Org1.
Id1 == <<"1">>

Id2 == <<"2">>

Id3 == <<"3">>

Id4 == <<"4">>

Id11 == <<"1","1">>

Org1 == Ref(Organization, Id1)

Org2 == Ref(Organization, Id2)

AbsOrg1 == <<"h","/">> \o Org1

Oid1 == <<"o","i","d","1">>

\* JwtCustomPayload of the two credentials: one carries an oid, one does not
TokenWithOid == <<"t","1">>

TokenWithoutOid == <<"t","0">>

jwtDecode(authToken) ==
    IF authToken = TokenWithOid THEN [oid |-> Some(Oid1)] ELSE [oid |-> Undefined]

\* headers.get('Authorization'): null, the empty string, or a credential
Authorizations == {Undefined, Some(<<>>), Some(TokenWithOid), Some(TokenWithoutOid)}

Handlers == {"Patient", "Device", "Observation"}

MkPractitioner(id, identifier) ==
    [resourceType |-> Practitioner, id |-> id, identifier |-> identifier]

\* identifier?: absent, or a list of Identifier whose value may be absent
Practitioners ==
    { MkPractitioner(Id1, Some(<<[value |-> Some(Oid1)]>>)),
      MkPractitioner(Id2, Some(<<[value |-> Undefined]>>)),
      MkPractitioner(Id3, Undefined),
      MkPractitioner(Id4, Some(<<[value |-> Some(Id1)], [value |-> Some(Oid1)]>>)) }

MkPractitionerRole(id, practitionerRef, orgRef) ==
    [resourceType |-> PractitionerRole, id |-> id,
     practitioner |-> [reference |-> practitionerRef],
     organization |-> [reference |-> orgRef]]

PractitionerRoles ==
    { MkPractitionerRole(Id1, Ref(Practitioner, Id1), Some(Org1)),
      MkPractitionerRole(Id11, <<"h","/">> \o Ref(Practitioner, Id1), Some(Org1)),
      MkPractitionerRole(Id2, Ref(Practitioner, Id2), Undefined) }

\* managingOrganization?.reference: an absent managingOrganization and one
\* without a reference both read as undefined
MkPatient(id, orgRef) ==
    [resourceType |-> PatientType, id |-> id,
     managingOrganization |-> [reference |-> orgRef]]

Patients ==
    { MkPatient(Id1, Some(Org1)),
      MkPatient(Id11, Some(AbsOrg1)),
      MkPatient(Id2, Undefined) }

MkActor(code, ref) ==
    [role |-> [coding |-> <<[code |-> code]>>], reference |-> [reference |-> ref]]

MkConsent(id, type, patientRef, actors) ==
    [resourceType |-> ConsentType, id |-> id,
     patient |-> [reference |-> patientRef],
     provision |-> [type |-> type, actor |-> actors]]

Consents ==
    { MkConsent(Id1, "permit", Ref(PatientType, Id11),
                <<MkActor("GRANTEE", Ref(PractitionerRole, Id1))>>),
      MkConsent(Id2, "permit", Ref(PatientType, Id11),
                <<MkActor("GRANTEE", Ref(PractitionerRole, Id11))>>),
      MkConsent(Id3, "deny", Ref(PatientType, Id11),
                <<MkActor("GRANTEE", Ref(PractitionerRole, Id1))>>) }

MkDevice(id, patientRef, ownerRef) ==
    [resourceType |-> DeviceType, id |-> id,
     patient |-> [reference |-> patientRef],
     owner |-> [reference |-> ownerRef]]

Devices ==
    { MkDevice(Id1, Ref(PatientType, Id1), Some(Org1)),
      MkDevice(Id11, Ref(PatientType, Id11), Some(Org1)),
      MkDevice(Id2, Ref(PatientType, Id11), Some(Org2)) }

MkObservation(id, subjectRef, deviceRef) ==
    [resourceType |-> ObservationType, id |-> id,
     subject |-> [reference |-> subjectRef],
     device |-> [reference |-> deviceRef]]

Observations ==
    { MkObservation(Id1, Ref(PatientType, Id1), Ref(DeviceType, Id1)),
      MkObservation(Id2, Ref(PatientType, Id11), Ref(DeviceType, Id11)),
      MkObservation(Id3, Ref(PatientType, Id2), Ref(DeviceType, Id2)) }

\* an entry of another kind, as a search Bundle may carry
Outcome == [resourceType |-> OperationOutcome, id |-> <<"w">>]

ResourcesOf(endpoint) ==
    CASE endpoint = Practitioner -> Practitioners
      [] endpoint = PractitionerRole -> PractitionerRoles
      [] endpoint = PatientType -> Patients
      [] endpoint = ConsentType -> Consents
      [] endpoint = DeviceType -> Devices
      [] endpoint = ObservationType -> Observations

\* lists of at most n distinct elements of S
ListsOf(S, n) ==
    UNION { { s \in [1..k -> S] : \A i, j \in 1..k : i # j => s[i] # s[j] } : k \in 0..n }

\* what the upstream may answer to GET fhirURL/endpoint: a Bundle of at most
\* MaxEntries distinct entries, or a body that is no Bundle
UpstreamBodies(endpoint) ==
    { [resourceType |-> Bundle, entry |-> Map(l, LAMBDA r : [resource |-> r])] :
        l \in ListsOf(ResourcesOf(endpoint) \cup {Outcome}, MaxEntries) }
    \cup { [resourceType |-> OperationOutcome] }

\* ------------------------------------------------------------ functions
\* getAuthTokenAndUserId without the test of a missing header
getAuthTokenAndUserIdNoNullCheck(request) ==
    IF request.Authorization = Some(<<>>)
    THEN [authToken |-> Undefined, userId |-> Undefined, httpError |-> Some(401)]
    ELSE [authToken |-> request.Authorization,
          userId |-> IF request.Authorization = Undefined
                     THEN Undefined
                     ELSE jwtDecode(CHOOSE t \in request.Authorization : TRUE).oid,
          httpError |-> Undefined]

getAuthTokenAndUserId(request) ==
    IF request.Authorization = Undefined \/ request.Authorization = Some(<<>>)
    THEN [authToken |-> Undefined, userId |-> Undefined, httpError |-> Some(401)]
    ELSE LET authToken == CHOOSE t \in request.Authorization : TRUE
         IN  [authToken |-> Some(authToken), userId |-> jwtDecode(authToken).oid,
              httpError |-> Undefined]

\* getSearchBundle wrapping a stub of each resource instead of the resource
getSearchBundleOfStubs(ressources) ==
    [resourceType |-> Bundle,
     type |-> "searchset",
     entry |-> Map(ressources, LAMBDA ressource :
                 [fullUrl |-> fhirURL \o Slash \o ressource.resourceType \o Slash \o ressource.id,
                  resource |-> [resourceType |-> ressource.resourceType,
                                id |-> ressource.id],
                  search |-> [mode |-> "match"]])]

getSearchBundle(ressources) ==
    [resourceType |-> Bundle,
     type |-> "searchset",
     entry |-> Map(ressources, LAMBDA ressource :
                 [fullUrl |-> fhirURL \o Slash \o ressource.resourceType \o Slash \o ressource.id,
                  resource |-> ressource,
                  search |-> [mode |-> "match"]])]

\* getRessources taking a body that is no Bundle for an empty collection
getRessourcesLenient(ressourceBody, endpoint) ==
    IF ressourceBody.resourceType # Bundle
    THEN [ressources |-> <<>>, httpError |-> Undefined]
    ELSE [ressources |->
            Map(Filter(ressourceBody.entry,
                       LAMBDA entry : entry.resource.resourceType = endpoint),
                LAMBDA entry : entry.resource),
          httpError |-> Undefined]

\* the part of getRessources after the awaited response body
getRessources(ressourceBody, endpoint) ==
    IF ressourceBody.resourceType # Bundle
    THEN [ressources |-> <<>>, httpError |-> Some(500)]
    ELSE [ressources |->
            Map(Filter(ressourceBody.entry,
                       LAMBDA entry : entry.resource.resourceType = endpoint),
                LAMBDA entry : entry.resource),
          httpError |-> Undefined]

getUserPractitionerRole(ressourceBody, practitioner) ==
    LET fetched == getRessources(ressourceBody, PractitionerRole)
        filteredPractitioners ==
            Filter(fetched.ressources, LAMBDA practitionerRole :
                EndsWith(practitionerRole.practitioner.reference,
                         Practitioner \o Slash \o practitioner.id))
    IN  IF fetched.httpError # Undefined
        THEN [practitionerRole |-> Undefined, httpError |-> fetched.httpError]
        ELSE IF Len(filteredPractitioners) # 1
        THEN [practitionerRole |-> Undefined, httpError |-> Some(500)]
        ELSE [practitionerRole |-> Some(filteredPractitioners[1]), httpError |-> Undefined]

\* getUserPractitioner taking the first of several matches
getUserPractitionerFirstMatch(ressourceBody, userId) ==
    LET fetched == getRessources(ressourceBody, Practitioner)
        filteredPractitioners ==
            Filter(fetched.ressources, LAMBDA practitioner :
                \E identifiers \in practitioner.identifier :
                    SomeOf(identifiers, LAMBDA identifier : identifier.value = userId))
    IN  IF fetched.httpError # Undefined
        THEN [practitioner |-> Undefined, httpError |-> fetched.httpError]
        ELSE IF Len(filteredPractitioners) = 0
        THEN [practitioner |-> Undefined, httpError |-> Some(403)]
        ELSE [practitioner |-> Some(filteredPractitioners[1]), httpError |-> Undefined]

getUserPractitioner(ressourceBody, userId) ==
    LET fetched == getRessources(ressourceBody, Practitioner)
        filteredPractitioners ==
            Filter(fetched.ressources, LAMBDA practitioner :
                \E identifiers \in practitioner.identifier :
                    SomeOf(identifiers, LAMBDA identifier : identifier.value = userId))
    IN  IF fetched.httpError # Undefined
        THEN [practitioner |-> Undefined, httpError |-> fetched.httpError]
        ELSE IF Len(filteredPractitioners) # 1
        THEN [practitioner |-> Undefined, httpError |-> Some(403)]
        ELSE [practitioner |-> Some(filteredPractitioners[1]), httpError |-> Undefined]

\* isPatientInPractitionerOrganization comparing by suffix, as the other
\* references are compared
isPatientInPractitionerOrganizationBySuffix(patient, practitionerRole) ==
    \E a \in patient.managingOrganization.reference,
       b \in practitionerRole.organization.reference : EndsWith(a, b)

isPatientInPractitionerOrganization(patient, practitionerRole) ==
    patient.managingOrganization.reference = practitionerRole.organization.reference

\* isPractitionerRolePermitted asking one actor grant to be both the
\* GRANTEE and the role
isPractitionerRolePermittedSameActor(consents, practitionerRole, device) ==
    SomeOf(consents, LAMBDA consent :
        /\ consent.provision.type = "permit"
        /\ SomeOf(consent.provision.actor, LAMBDA actor :
               /\ SomeOf(actor.role.coding, LAMBDA coding : coding.code = "GRANTEE")
               /\ EndsWith(actor.reference.reference, practitionerRole.id)
               /\ consent.patient.reference = device.patient.reference))

isPractitionerRolePermitted(consents, practitionerRole, device) ==
    SomeOf(consents, LAMBDA consent :
        /\ SomeOf(consent.provision.actor, LAMBDA actor :
               SomeOf(actor.role.coding, LAMBDA coding : coding.code = "GRANTEE"))
        /\ consent.provision.type = "permit"
        /\ SomeOf(consent.provision.actor, LAMBDA actor :
               /\ EndsWith(actor.reference.reference, practitionerRole.id)
               /\ consent.patient.reference = device.patient.reference))

\* filteredPatients of the three handlers
FilterPatients(patients, practitionerRole) ==
    Filter(patients, LAMBDA patient :
        isPatientInPractitionerOrganization(patient, practitionerRole))

\* filteredDevices of the Device handler
DeviceFilterDevices(devices, fPatients, consents, practitionerRole) ==
    Filter(devices, LAMBDA device :
        \/ SomeOf(fPatients, LAMBDA patient :
               EndsWith(device.patient.reference, patient.id))
        \/ /\ device.owner.reference = practitionerRole.organization.reference
           /\ isPractitionerRolePermitted(consents, practitionerRole, device))

\* filteredDevices of the Observation handler without the consent disjunct
ObservationFilterDevicesByPatientOnly(devices, fPatients, consents, practitionerRole) ==
    Filter(devices, LAMBDA device :
        SomeOf(fPatients, LAMBDA patient :
            EndsWith(device.patient.reference, patient.id)))

\* filteredDevices of the Observation handler
ObservationFilterDevices(devices, fPatients, consents, practitionerRole) ==
    Filter(devices, LAMBDA device :
        \/ SomeOf(fPatients, LAMBDA patient :
               EndsWith(device.patient.reference, patient.id))
        \/ /\ device.owner.reference = practitionerRole.organization.reference
           /\ isPractitionerRolePermitted(consents, practitionerRole, device))

\* filteredObservations of the Observation handler
FilterObservations(observations, fPatients, fDevices) ==
    Filter(observations, LAMBDA observation :
        \/ SomeOf(fPatients, LAMBDA patient :
               EndsWith(observation.subject.reference, patient.id))
        \/ SomeOf(fDevices, LAMBDA device :
               EndsWith(observation.device.reference, device.id)))

\* ------------------------------------------------------------ state
\* One request at a time: the handlers share no state, so a new request
\* starts from fresh locals.  pc is "idle", the endpoint whose fetch the
\* handler is about to await, or "done".
VARIABLES
    handler,              \* which of the three handlers serves the request
    request,              \* [Authorization]: the header of the request
    pc,
    userId,               \* oid of the decoded credential, or undefined
    fetches,              \* endpoints fetched upstream so far, in order
    ressourceBody,        \* body of the latest upstream response, if any
    practitioner,
    practitionerRole,
    patients,
    consents,
    devices,
    observations,
    filteredPatients,
    filteredDevices,
    filteredObservations,
    response              \* [status, body]: body is a search Bundle or undefined

vars ==
    <<handler, request, pc, userId, fetches, ressourceBody, practitioner,
      practitionerRole, patients, consents, devices, observations,
      filteredPatients, filteredDevices, filteredObservations, response>>

locals ==
    <<practitioner, practitionerRole, patients, consents, devices, observations,
      filteredPatients, filteredDevices, filteredObservations>>

NoResponse == [status |-> 0, body |-> Undefined]

\* return fetchError / unauthorizedError: a status and nothing else
ErrorResponse(httpError) ==
    [status |-> CHOOSE st \in httpError : TRUE, body |-> Undefined]

\* return { headers, body: JSON.stringify(bundle) }: the host answers 200
BundleResponse(bundle) == [status |-> 200, body |-> Some(bundle)]

Init ==
    /\ handler = "Patient"
    /\ request = [Authorization |-> Undefined]
    /\ pc = "idle"
    /\ userId = Undefined
    /\ fetches = <<>>
    /\ ressourceBody = Undefined
    /\ practitioner = Undefined
    /\ practitionerRole = Undefined
    /\ patients = <<>>
    /\ consents = <<>>
    /\ devices = <<>>
    /\ observations = <<>>
    /\ filteredPatients = <<>>
    /\ filteredDevices = <<>>
    /\ filteredObservations = <<>>
    /\ response = NoResponse

\* The host invokes a handler with a request; the handler runs up to its
\* first await.
Receive(h, authorization) ==
    /\ pc = "idle"
    /\ handler' = h
    /\ request' = [Authorization |-> authorization]
    /\ LET auth == getAuthTokenAndUserId(request')
       IN  IF auth.httpError # Undefined
           THEN /\ response' = ErrorResponse(auth.httpError)
                /\ userId' = Undefined
                /\ pc' = "done"
           ELSE /\ response' = NoResponse
                /\ userId' = auth.userId
                /\ pc' = "Practitioner"
    /\ UNCHANGED <<fetches, ressourceBody, locals>>

\* The response is sent and the invocation ends: nothing of it is kept.
Complete ==
    /\ pc = "done"
    /\ pc' = "idle"
    /\ handler' = "Patient"
    /\ request' = [Authorization |-> Undefined]
    /\ userId' = Undefined
    /\ fetches' = <<>>
    /\ ressourceBody' = Undefined
    /\ practitioner' = Undefined
    /\ practitionerRole' = Undefined
    /\ patients' = <<>>
    /\ consents' = <<>>
    /\ devices' = <<>>
    /\ observations' = <<>>
    /\ filteredPatients' = <<>>
    /\ filteredDevices' = <<>>
    /\ filteredObservations' = <<>>
    /\ response' = NoResponse

\* await getUserPractitioner(authToken, userId)
AwaitPractitioner(body) ==
    /\ pc = "Practitioner"
    /\ fetches' = Append(fetches, Practitioner)
    /\ ressourceBody' = Some(body)
    /\ LET r == getUserPractitioner(body, userId)
       IN  IF r.httpError # Undefined
           THEN /\ response' = ErrorResponse(r.httpError)
                /\ pc' = "done"
                /\ UNCHANGED practitioner
           ELSE /\ practitioner' = r.practitioner
                /\ pc' = "PractitionerRole"
                /\ UNCHANGED response
    /\ UNCHANGED <<handler, request, userId, practitionerRole, patients, consents,
                   devices, observations, filteredPatients, filteredDevices,
                   filteredObservations>>

\* await getUserPractitionerRole(authToken, practitioner)
AwaitPractitionerRole(body) ==
    /\ pc = "PractitionerRole"
    /\ fetches' = Append(fetches, PractitionerRole)
    /\ ressourceBody' = Some(body)
    /\ LET r == getUserPractitionerRole(body, CHOOSE p \in practitioner : TRUE)
       IN  IF r.httpError # Undefined
           THEN /\ response' = ErrorResponse(r.httpError)
                /\ pc' = "done"
                /\ UNCHANGED practitionerRole
           ELSE /\ practitionerRole' = r.practitionerRole
                /\ pc' = "Patient"
                /\ UNCHANGED response
    /\ UNCHANGED <<handler, request, userId, practitioner, patients, consents,
                   devices, observations, filteredPatients, filteredDevices,
                   filteredObservations>>

TheRole == CHOOSE r \in practitionerRole : TRUE

\* await getRessources(authToken, 'Patient'); the Patient handler then
\* filters and answers
AwaitPatients(body) ==
    /\ pc = "Patient"
    /\ fetches' = Append(fetches, PatientType)
    /\ ressourceBody' = Some(body)
    /\ LET r == getRessources(body, PatientType)
       IN  IF r.httpError # Undefined
           THEN /\ response' = ErrorResponse(r.httpError)
                /\ pc' = "done"
                /\ UNCHANGED <<patients, filteredPatients>>
           ELSE /\ patients' = r.ressources
                /\ IF handler = "Patient"
                   THEN /\ filteredPatients' = FilterPatients(patients', TheRole)
                        /\ response' = BundleResponse(getSearchBundle(filteredPatients'))
                        /\ pc' = "done"
                   ELSE /\ pc' = "Consent"
                        /\ UNCHANGED <<filteredPatients, response>>
    /\ UNCHANGED <<handler, request, userId, practitioner, practitionerRole,
                   consents, devices, observations, filteredDevices,
                   filteredObservations>>

\* await getRessources(authToken, 'Consent')
AwaitConsents(body) ==
    /\ pc = "Consent"
    /\ fetches' = Append(fetches, ConsentType)
    /\ ressourceBody' = Some(body)
    /\ LET r == getRessources(body, ConsentType)
       IN  IF r.httpError # Undefined
           THEN /\ response' = ErrorResponse(r.httpError)
                /\ pc' = "done"
                /\ UNCHANGED consents
           ELSE /\ consents' = r.ressources
                /\ pc' = "Device"
                /\ UNCHANGED response
    /\ UNCHANGED <<handler, request, userId, practitioner, practitionerRole,
                   patients, devices, observations, filteredPatients,
                   filteredDevices, filteredObservations>>

\* await getRessources(authToken, 'Device'); the Device handler then filters
\* and answers
AwaitDevices(body) ==
    /\ pc = "Device"
    /\ fetches' = Append(fetches, DeviceType)
    /\ ressourceBody' = Some(body)
    /\ LET r == getRessources(body, DeviceType)
       IN  IF r.httpError # Undefined
           THEN /\ response' = ErrorResponse(r.httpError)
                /\ pc' = "done"
                /\ UNCHANGED <<devices, filteredPatients, filteredDevices>>
           ELSE /\ devices' = r.ressources
                /\ IF handler = "Device"
                   THEN /\ filteredPatients' = FilterPatients(patients, TheRole)
                        /\ filteredDevices' =
                               DeviceFilterDevices(devices', filteredPatients',
                                                   consents, TheRole)
                        /\ response' = BundleResponse(getSearchBundle(filteredDevices'))
                        /\ pc' = "done"
                   ELSE /\ pc' = "Observation"
                        /\ UNCHANGED <<filteredPatients, filteredDevices, response>>
    /\ UNCHANGED <<handler, request, userId, practitioner, practitionerRole,
                   patients, consents, observations, filteredObservations>>

\* await getRessources(authToken, 'Observation'); the Observation handler
\* then filters and answers
AwaitObservations(body) ==
    /\ pc = "Observation"
    /\ fetches' = Append(fetches, ObservationType)
    /\ ressourceBody' = Some(body)
    /\ LET r == getRessources(body, ObservationType)
       IN  IF r.httpError # Undefined
           THEN /\ response' = ErrorResponse(r.httpError)
                /\ pc' = "done"
                /\ UNCHANGED <<observations, filteredPatients, filteredDevices,
                               filteredObservations>>
           ELSE /\ observations' = r.ressources
                /\ filteredPatients' = FilterPatients(patients, TheRole)
                /\ filteredDevices' =
                       ObservationFilterDevices(devices, filteredPatients',
                                                consents, TheRole)
                /\ filteredObservations' =
                       FilterObservations(observations', filteredPatients',
                                          filteredDevices')
                /\ response' = BundleResponse(getSearchBundle(filteredObservations'))
                /\ pc' = "done"
    /\ UNCHANGED <<handler, request, userId, practitioner, practitionerRole,
                   patients, consents, devices>>

Next ==
    \/ \E h \in Handlers, a \in Authorizations : Receive(h, a)
    \/ Complete
    \/ \E body \in UpstreamBodies(Practitioner) : AwaitPractitioner(body)
    \/ \E body \in UpstreamBodies(PractitionerRole) : AwaitPractitionerRole(body)
    \/ \E body \in UpstreamBodies(PatientType) : AwaitPatients(body)
    \/ \E body \in UpstreamBodies(ConsentType) : AwaitConsents(body)
    \/ \E body \in UpstreamBodies(DeviceType) : AwaitDevices(body)
    \/ \E body \in UpstreamBodies(ObservationType) : AwaitObservations(body)

Spec == Init /\ [][Next]_vars

\* ------------------------------------------------------------ properties
LatestBody == CHOOSE b \in ressourceBody : TRUE

LatestIsBundle == ressourceBody # Undefined /\ LatestBody.resourceType = Bundle

LatestIsNoBundle == ressourceBody # Undefined /\ LatestBody.resourceType # Bundle

\* the resources the latest upstream Bundle carries
LatestResources == { LatestBody.entry[i].resource : i \in 1..Len(LatestBody.entry) }

Succeeded == pc = "done" /\ response.status = 200

\* the entries of the Bundle answered, none when the answer has no body
ResponseEntries ==
    IF response.body = Undefined THEN <<>> ELSE (CHOOSE b \in response.body : TRUE).entry

ErrorOnly(status) == [status |-> status, body |-> Undefined]

\* the order in which each handler is to fetch
FetchOrder(h) ==
    CASE h = "Patient" -> <<Practitioner, PractitionerRole, PatientType>>
      [] h = "Device" ->
           <<Practitioner, PractitionerRole, PatientType, ConsentType, DeviceType>>
      [] h = "Observation" ->
           <<Practitioner, PractitionerRole, PatientType, ConsentType, DeviceType,
             ObservationType>>

\* Practitioners of the latest Bundle with an identifier value equal to the
\* subject id
MatchingPractitioners ==
    { r \in LatestResources :
        /\ r.resourceType = Practitioner
        /\ \E ids \in r.identifier : \E k \in 1..Len(ids) : ids[k].value = userId }

\* PractitionerRoles of the latest Bundle whose practitioner reference ends
\* with 'Practitioner/' + practitioner.id
MatchingRoles ==
    { r \in LatestResources :
        /\ r.resourceType = PractitionerRole
        /\ \E p \in practitioner :
             EndsWith(r.practitioner.reference, Ref(Practitioner, p.id)) }

\* C5: Resolution cardinality.  When the Practitioner Bundle holds zero or
\* several Practitioners matching the subject id, the request ends with 403
\* and no body, and a 403 is only ever reached with the Practitioner fetch
\* as the single fetch; when one Practitioner matched and the
\* PractitionerRole Bundle holds zero or several roles of that
\* practitioner, the request ends with 500 and no body.
C5_ResolutionCardinality ==
    /\ (fetches = <<Practitioner>> /\ LatestIsBundle
            /\ Cardinality(MatchingPractitioners) # 1)
       => (pc = "done" /\ response = ErrorOnly(403))
    /\ response.status = 403 => fetches = <<Practitioner>>
    /\ (fetches = <<Practitioner, PractitionerRole>> /\ LatestIsBundle
            /\ Cardinality(MatchingRoles) # 1)
       => (pc = "done" /\ response = ErrorOnly(500))

C5_Witness_TwoPractitioners ==
    /\ fetches = <<Practitioner>>
    /\ LatestIsBundle
    /\ Cardinality(MatchingPractitioners) = 2
    /\ response = ErrorOnly(403)

\* C6: a request without an Authorization header ends with status 401 and
\* no upstream fetch is issued for it, in each of the three handlers.
C6_MissingHeaderIs401 ==
    (pc # "idle" /\ request.Authorization = Undefined)
    => (pc = "done" /\ response = ErrorOnly(401) /\ fetches = <<>>)

C6_Witness_Unauthorized ==
    /\ pc = "done"
    /\ handler = "Observation"
    /\ request.Authorization = Undefined
    /\ response.status = 401

\* C7: No partial results.  The fetches of a request are a prefix of
\* Practitioner, PractitionerRole, Patient, Consent, Device, Observation cut
\* to the handler; once the latest body is no Bundle the request is done
\* with status 500 and a response without entries.
C7_NoPartialResults ==
    pc # "idle" =>
        /\ Len(fetches) <= Len(FetchOrder(handler))
        /\ fetches = SubSeq(FetchOrder(handler), 1, Len(fetches))
        /\ LatestIsNoBundle =>
              (pc = "done" /\ response = ErrorOnly(500) /\ ResponseEntries = <<>>)

C7_Witness_DeviceFetchFails ==
    /\ handler = "Observation"
    /\ Len(fetches) = 5
    /\ LatestIsNoBundle
    /\ patients # <<>>
    /\ consents # <<>>
    /\ response.status = 500

\* the resource kind a handler answers with
KindOf(h) ==
    CASE h = "Patient" -> PatientType
      [] h = "Device" -> DeviceType
      [] h = "Observation" -> ObservationType

\* C4: Membership correctness.  In every handler that answers a Bundle, a
\* fetched patient is in filteredPatients exactly when its
\* managing-organization reference equals the role's organization
\* reference; when the role has an organization reference, no patient
\* without a managing organization is in filteredPatients.
C4_MembershipCorrectness ==
    Succeeded =>
        /\ \A i \in 1..Len(patients) :
             patients[i] \in Range(filteredPatients)
             <=> patients[i].managingOrganization.reference
                   = TheRole.organization.reference
        /\ TheRole.organization.reference # Undefined =>
             \A q \in Range(filteredPatients) :
                 q.managingOrganization.reference # Undefined

C4_Witness_MemberAndStranger ==
    /\ Succeeded
    /\ handler = "Patient"
    /\ TheRole.organization.reference = Some(Org1)
    /\ \E q \in Range(patients) :
         q.managingOrganization.reference = Undefined /\ q \notin Range(filteredPatients)
    /\ \E q \in Range(patients) :
         q.managingOrganization.reference = Some(Org1) /\ q \in Range(filteredPatients)

\* C9: Subset invariant.  In every handler that answers a Bundle, each
\* filtered list holds only elements of the fetched list of its kind, and
\* every entry of the Bundle answered carries, unmodified, a resource of
\* the requested kind that the upstream Bundle of that kind carried.
C9_SubsetInvariant ==
    Succeeded =>
        /\ Range(filteredPatients) \subseteq Range(patients)
        /\ Range(filteredDevices) \subseteq Range(devices)
        /\ Range(filteredObservations) \subseteq Range(observations)
        /\ fetches[Len(fetches)] = KindOf(handler)
        /\ \A i \in 1..Len(ResponseEntries) :
             /\ ResponseEntries[i].resource.resourceType = KindOf(handler)
             /\ ResponseEntries[i].resource \in LatestResources

C9_Witness_ProperSubset ==
    /\ Succeeded
    /\ handler = "Observation"
    /\ Outcome \in LatestResources
    /\ Len(ResponseEntries) = 1
    /\ Len(patients) = 2
    /\ Len(filteredPatients) = 1

\* C3: Observation dependency.  In the Observation handler a fetched
\* observation is in filteredObservations exactly when its subject
\* reference ends with the id of a patient in filteredPatients or its
\* device reference ends with the id of a device the device stage of the
\* Device handler yields on the same snapshot; no superset of
\* filteredDevices among the fetched devices would remove an observation;
\* and the Bundle answered carries exactly filteredObservations.
C3_ObservationDependency ==
    (Succeeded /\ handler = "Observation") =>
        LET stage == DeviceFilterDevices(devices, filteredPatients, consents, TheRole)
        IN  /\ \A i \in 1..Len(observations) :
                 observations[i] \in Range(filteredObservations)
                 <=> \/ \E q \in Range(filteredPatients) :
                          EndsWith(observations[i].subject.reference, q.id)
                     \/ \E d \in Range(stage) :
                          EndsWith(observations[i].device.reference, d.id)
            /\ \A S \in SUBSET Range(devices) :
                 Range(filteredDevices) \subseteq S =>
                     Range(filteredObservations) \subseteq
                         Range(FilterObservations(observations, filteredPatients,
                                   Filter(devices, LAMBDA d : d \in S)))
            /\ Map(ResponseEntries, LAMBDA e : e.resource) = filteredObservations

\* an observation outside the organization, visible through a device that
\* only a consent admits
C3_Witness_ConsentAdmittedDevice ==
    /\ Succeeded
    /\ handler = "Observation"
    /\ \E o \in Range(filteredObservations), d \in Range(filteredDevices) :
         /\ EndsWith(o.device.reference, d.id)
         /\ \A q \in Range(filteredPatients) :
                /\ ~EndsWith(o.subject.reference, q.id)
                /\ ~EndsWith(d.patient.reference, q.id)
         /\ isPractitionerRolePermitted(consents, TheRole, d)

\* ------------------------------------------------------------ consent evaluator alone
\* isPractitionerRolePermitted applied to every list of at most MaxConsents
\* consents of at most MaxActors actor grants each.
ActorInputs ==
    { MkActor(code, ref) :
        code \in {"GRANTEE", "IRCP"},
        ref \in {Ref(PractitionerRole, Id1), Ref(PractitionerRole, Id2)} }

ConsentInputs ==
    { MkConsent(Id1, type, patientRef, actors) :
        type \in {"permit", "deny"},
        patientRef \in {Ref(PatientType, Id1), Ref(PatientType, Id2)},
        actors \in ListsOf(ActorInputs, MaxActors) }

ConsentInit ==
    /\ handler = "Device"
    /\ request = [Authorization |-> Some(TokenWithOid)]
    /\ pc = "evaluate"
    /\ userId = Some(Oid1)
    /\ fetches = <<>>
    /\ ressourceBody = Undefined
    /\ practitioner = Undefined
    /\ practitionerRole \in
         { Some(MkPractitionerRole(id, Ref(Practitioner, Id1), Some(Org1))) :
             id \in {Id1, Id2} }
    /\ patients = <<>>
    /\ consents \in ListsOf(ConsentInputs, MaxConsents)
    /\ devices = <<MkDevice(Id1, Ref(PatientType, Id1), Some(Org1))>>
    /\ observations = <<>>
    /\ filteredPatients = <<>>
    /\ filteredDevices = <<>>
    /\ filteredObservations = <<>>
    /\ response = NoResponse

\* filteredDevices becomes the devices the consent evaluator permits
EvaluateConsent ==
    /\ pc = "evaluate"
    /\ pc' = "evaluated"
    /\ filteredDevices' =
           Filter(devices, LAMBDA device :
               isPractitionerRolePermitted(consents, TheRole, device))
    /\ UNCHANGED <<handler, request, userId, fetches, ressourceBody, practitioner,
                   practitionerRole, patients, consents, devices, observations,
                   filteredPatients, filteredObservations, response>>

ConsentNext == EvaluateConsent

ConsentSpec == ConsentInit /\ [][ConsentNext]_vars

\* the four conditions of the consent evaluator, each over the whole consent
HasGrantee(c) ==
    \E a \in Range(c.provision.actor) :
        \E k \in 1..Len(a.role.coding) : a.role.coding[k].code = "GRANTEE"

NamesRoleBySuffix(c, role) ==
    \E a \in Range(c.provision.actor) : EndsWith(a.reference.reference, role.id)

Qualifies(c, role, d) ==
    /\ c.provision.type = "permit"
    /\ HasGrantee(c)
    /\ NamesRoleBySuffix(c, role)
    /\ c.patient.reference = d.patient.reference

\* C2: Consent Evaluator.  isPractitionerRolePermitted is true exactly when
\* some consent is a permit, has an actor grant coded GRANTEE, has an actor
\* grant whose reference ends with the role id, and is for the device's
\* patient reference, the four taken as independent conjuncts over the
\* consent (empty actor lists included; the GRANTEE grant and the grant
\* naming the role may differ).
C2_ConsentEvaluator ==
    pc = "evaluated" =>
        \A i \in 1..Len(devices) :
            devices[i] \in Range(filteredDevices)
            <=> \E c \in Range(consents) : Qualifies(c, TheRole, devices[i])

\* permitted by a consent whose GRANTEE grant and role grant are two grants
C2_Witness_TwoActors ==
    /\ pc = "evaluated"
    /\ filteredDevices # <<>>
    /\ \A c \in Range(consents) :
         \A a \in Range(c.provision.actor) :
            ~ (/\ a.role.coding[1].code = "GRANTEE"
               /\ EndsWith(a.reference.reference, TheRole.id))

\* C1: Device OR-correctness (as claimed).  In the Device handler a fetched
\* device is in filteredDevices exactly when the patient it references is
\* in filteredPatients, or its owner reference equals the role's
\* organization reference and some consent qualifies.
C1_DeviceOrCorrectness ==
    (Succeeded /\ handler = "Device") =>
        \A i \in 1..Len(devices) :
            devices[i] \in Range(filteredDevices)
            <=> \/ \E q \in Range(filteredPatients) :
                     devices[i].patient.reference = Ref(PatientType, q.id)
                \/ /\ devices[i].owner.reference = TheRole.organization.reference
                   /\ \E c \in Range(consents) : Qualifies(c, TheRole, devices[i])

\* C8: Malformed credential (as claimed).  A request whose credential
\* decodes to no oid ends in an error response without a Bundle.
C8_MalformedCredentialFails ==
    (/\ pc = "done"
     /\ request.Authorization \in {Some(TokenWithOid), Some(TokenWithoutOid)}
     /\ userId = Undefined)
    => (response.status # 200 /\ response.body = Undefined)

\* C10: Consent names the role (as claimed), stated for the devices that
\* no filtered patient admits by suffix, so that only the consent disjunct
\* can have admitted them: such a device is in filteredDevices only if a
\* permit consent for exactly its patient reference has an actor grant
\* referencing the requester's own PractitionerRole.
C10_ConsentNamesTheRole ==
    (Succeeded /\ handler \in {"Device", "Observation"}) =>
        \A d \in Range(filteredDevices) :
            (\A q \in Range(filteredPatients) :
                ~EndsWith(d.patient.reference, q.id))
            => \E c \in Range(consents) :
                  /\ c.provision.type = "permit"
                  /\ c.patient.reference = d.patient.reference
                  /\ \E a \in Range(c.provision.actor) :
                        a.reference.reference = Ref(PractitionerRole, TheRole.id)

====
